---- MODULE Spec2Model ----
(***************************************************************************)
(* A model of package cli (mikelaspina/go-cli): the CommandSet registry,   *)
(* its dispatcher Run and the usage renderer PrintUsage.                   *)
(*                                                                         *)
(* Go strings are modelled as sequences of one-character strings, so that  *)
(* prefixes, byte-wise ordering, padding and path.Base are computed, not   *)
(* assumed.  Help texts that the code only copies to the output (Usage,    *)
(* Short, Synopsis, flag usage) are opaque TLA+ strings.                   *)
(***************************************************************************)
EXTENDS Integers, Sequences, FiniteSets, TLC

-----------------------------------------------------------------------------
(* Bounds of the model. *)

\* Register calls made before dispatch.
MaxRegs == 3
\* Flags defined through the methods of Command.
MaxOpts == 2
\* Nested activations of one function that fit on a goroutine's stack.
MaxStack == 3

-----------------------------------------------------------------------------
(* Strings. *)

\* The characters the model uses, in ascending byte (ASCII) order.
Ascii == << " ", "\"", "-", ".", "/", "=", "a", "b", "e", "f", "h", "l", "o", "p",
            "s", "v", "x", "z" >>

Byte(c) == CHOOSE i \in 1..Len(Ascii) : Ascii[i] = c

\* a < b on Go strings: byte-wise lexicographic order.
Less(a, b) ==
  \E i \in 1..(Len(a) + 1) :
     /\ i <= Len(b)
     /\ \A j \in 1..(i - 1) : a[j] = b[j]
     /\ \/ i = Len(a) + 1
        \/ Byte(a[i]) < Byte(b[i])

\* strings.HasPrefix(s, prefix)
HasPrefix(s, prefix) ==
  /\ Len(s) >= Len(prefix)
  /\ SubSeq(s, 1, Len(prefix)) = prefix

RECURSIVE Spaces(_)
Spaces(n) == IF n <= 0 THEN << >> ELSE << " " >> \o Spaces(n - 1)

\* fmt's %-*s verb: s left-justified in a field of the given width.
PadRight(s, width) == s \o Spaces(width - Len(s))

\* fmt's %q verb on a string without characters that need escaping.
Quote(s) == << "\"" >> \o s \o << "\"" >>

RECURSIVE TrimSlashes(_)
TrimSlashes(p) ==
  IF Len(p) > 0 /\ p[Len(p)] = "/" THEN TrimSlashes(SubSeq(p, 1, Len(p) - 1))
  ELSE p

\* Index of the last "/" of p, 0 when there is none.
LastSlash(p) ==
  IF \E i \in 1..Len(p) : p[i] = "/"
  THEN CHOOSE i \in 1..Len(p) : p[i] = "/" /\ \A j \in (i + 1)..Len(p) : p[j] # "/"
  ELSE 0

\* path.Base
Base(p) ==
  IF p = << >> THEN << "." >>
  ELSE LET t == TrimSlashes(p)
           u == SubSeq(t, LastSlash(t) + 1, Len(t))
       IN  IF u = << >> THEN << "/" >> ELSE u

\* sort.Strings: the ascending rearrangement of a slice.
RECURSIVE Insert(_, _)
Insert(s, x) ==
  IF s = << >> THEN << x >>
  ELSE IF Less(x, s[1]) THEN << x >> \o s
  ELSE << s[1] >> \o Insert(Tail(s), x)

RECURSIVE SortStrings(_)
SortStrings(s) ==
  IF s = << >> THEN << >>
  ELSE Insert(SortStrings(SubSeq(s, 1, Len(s) - 1)), s[Len(s)])

\* maxLen
RECURSIVE maxLen(_)
maxLen(ary) ==
  IF ary = << >> THEN 0
  ELSE LET m == maxLen(Tail(ary))
       IN  IF Len(ary[1]) > m THEN Len(ary[1]) ELSE m

\* The orders in which a Go range statement may visit the keys of a map.
RangeOrders(S) ==
  { s \in [1..Cardinality(S) -> S] : \A i, j \in 1..Cardinality(S) : i # j => s[i] # s[j] }

-----------------------------------------------------------------------------
(* The values the model draws its inputs from. *)

help == << "h", "e", "l", "p" >>

\* Command names handed to Register, Run and PrintUsage.
Names == { << >>, << "a" >>, << "a", "b" >>, help }

\* The argument lists handed to Run: no argument, positional arguments only,
\* each path of the flag parser (a bool flag, a string flag with its value in
\* the next argument or after "=", a missing value, a value no bool accepts,
\* an undefined flag, -h, the "--" terminator) and flags after a positional
\* argument.
ArgLists ==
  { << >>,
    << << "a" >> >>,
    << << "a", "b" >> >>,
    << << "a" >>, << "a", "b" >> >>,
    << << "-", "v" >> >>,
    << << "-", "v" >>, << "a" >> >>,
    << << "a" >>, << "-", "v" >> >>,
    << << "-", "o" >> >>,
    << << "-", "o" >>, << "a" >> >>,
    << << "-", "-", "o", "=", "a" >>, << "-", "v" >>, << "a" >> >>,
    << << "-", "v", "=", "a" >> >>,
    << << "-", "z" >>, << "a" >> >>,
    << << "-", "h" >> >>,
    << << "-", "-" >>, << "-", "v" >> >> }

-----------------------------------------------------------------------------
(* Commands.  A *Command is a pointer: the model names the Command values  *)
(* the embedding program creates.                                          *)

\* A flag.Flag of a command's flag set; type is the kind of its Value.
Flag(n, type, def, usage) ==
  [Name |-> n, type |-> type, DefValue |-> def, Usage |-> usage]

\* type Command struct: export is an action with a bool flag v and a string
\* flag o, topic is a help topic (Run is nil) without flags.
Command(c) ==
  IF c = "export"
  THEN [Run      |-> TRUE,
        Usage    |-> "export [-v] [-o <outfile>]",
        Short    |-> "export some data",
        Synopsis |-> "",
        Flags    |-> { Flag(<< "v" >>, "bool", << "f", "a", "l", "s", "e" >>,
                            "cause export to be verbose"),
                       Flag(<< "o" >>, "string", << >>, "output to a file") }]
  ELSE [Run      |-> FALSE,
        Usage    |-> "topic",
        Short    |-> "a help topic",
        Synopsis |-> "All about the topic.",
        Flags    |-> { }]

Commands == { "export", "topic" }

\* A line written to standard error: its kind k, a computed string s and an
\* opaque text t.
Line(k, s, t) == [k |-> k, s |-> s, t |-> t]

-----------------------------------------------------------------------------
(* flag.FlagSet.Parse, as Run uses it: the zero FlagSet handles errors by  *)
(* returning them (ContinueOnError).  usage is what the set's Usage        *)
(* callback writes when the flag package calls it.                         *)

\* The spellings strconv.ParseBool accepts, among the values of the model.
ParseBoolOK(v) ==
  v \in { << "1" >>, << "0" >>, << "t" >>, << "f" >>,
          << "t", "r", "u", "e" >>, << "f", "a", "l", "s", "e" >> }

\* Index of the first "=" of s after its first character, 0 when none.
FirstEq(s) ==
  IF \E i \in 2..Len(s) : s[i] = "="
  THEN CHOOSE i \in 2..Len(s) : s[i] = "=" /\ \A j \in 2..(i - 1) : s[j] # "="
  ELSE 0

\* failf: the error is printed, the usage callback runs, the error returns.
Failf(msg, s, args, usage) ==
  [seen |-> FALSE, err |-> msg, args |-> args,
   out |-> << Line("flag.error", s, msg) >> \o usage]

\* parseOne: one flag of args is consumed (seen), or parsing ends.
parseOne(formal, args, usage) ==
  LET stop(rest) == [seen |-> FALSE, err |-> "nil", args |-> rest, out |-> << >>]
      s == args[1]
  IN
  IF Len(args) = 0 THEN stop(args)
  ELSE IF Len(s) < 2 \/ s[1] # "-" THEN stop(args)
  ELSE IF s[2] = "-" /\ Len(s) = 2 THEN stop(Tail(args))
  ELSE
    LET numMinuses == IF s[2] = "-" THEN 2 ELSE 1
        full == SubSeq(s, numMinuses + 1, Len(s))
    IN
    IF Len(full) = 0 \/ full[1] = "-" \/ full[1] = "="
    THEN Failf("bad flag syntax", s, args, usage)
    ELSE
      LET rest     == Tail(args)
          eq       == FirstEq(full)
          hasValue == eq # 0
          value    == IF hasValue THEN SubSeq(full, eq + 1, Len(full)) ELSE << >>
          fname     == IF hasValue THEN SubSeq(full, 1, eq - 1) ELSE full
          found    == { f \in formal : f.Name = fname }
      IN
      IF found = { }
      THEN IF fname = help \/ fname = << "h" >>
           THEN [seen |-> FALSE, err |-> "ErrHelp", args |-> rest, out |-> usage]
           ELSE Failf("flag provided but not defined", fname, rest, usage)
      ELSE
        LET flag == CHOOSE f \in found : TRUE
        IN
        IF flag.type = "bool"
        THEN IF hasValue /\ ~ParseBoolOK(value)
             THEN Failf("invalid boolean value", fname, rest, usage)
             ELSE [seen |-> TRUE, err |-> "nil", args |-> rest, out |-> << >>]
        ELSE IF ~hasValue /\ Len(rest) = 0
             THEN Failf("flag needs an argument", fname, rest, usage)
             ELSE [seen |-> TRUE, err |-> "nil",
                   args |-> IF hasValue THEN rest ELSE Tail(rest), out |-> << >>]

\* Parse: flags are consumed until parseOne sees none; err is the error
\* returned ("nil" for none), args what FlagSet.Args() then returns, out
\* what the flag package wrote.
RECURSIVE Parse(_, _, _)
Parse(formal, args, usage) ==
  LET r == parseOne(formal, args, usage)
  IN  IF r.seen THEN Parse(formal, r.args, usage)
      ELSE [err |-> r.err, args |-> r.args, out |-> r.out]

-----------------------------------------------------------------------------
(* The state. *)

VARIABLES
  cmds,        \* CommandSet.cmds: the map from names to *Command
  Name,        \* CommandSet.Name
  osArgs0,     \* os.Args[0]
  flagsUsage,  \* Command.Flags.Usage of every Command
  cmdFlags,    \* the flags defined on the flag set of every Command
  opt,         \* the last call of a method of Command that defines a flag
  nRegs,       \* Register calls made so far
  op,          \* the last call: [f, name, args, cmd]
  out,         \* what the last call wrote to standard error
  ret,         \* the slice the last call returned (actions, partialMatch)
  status,      \* "running", "returned" (Run returned), "exited", "panicked"
  exitCode,    \* the process's exit status once it has ended, else -1
  calls,       \* the invocations of commands' Run functions: [cmd, args]
  result       \* the error Run returned: "none" while it has not

vars == << cmds, Name, osArgs0, flagsUsage, cmdFlags, opt, nRegs, op, out,
           ret, status, exitCode, calls, result >>

\* What a Flags.Usage field holds: nil, a function of the caller, or the
\* closure Register installs, which captures the name of that registration.
NoUsage      == [kind |-> "nil", name |-> << >>]
CustomUsage  == [kind |-> "custom", name |-> << >>]
DefaultUsage(n) == [kind |-> "default", name |-> n]

Call(f, n, args, c) == [f |-> f, name |-> n, args |-> args, cmd |-> c]

-----------------------------------------------------------------------------
(* Lookups of the registry.  order is the order in which the range statement *)
(* visits the keys of cmds.                                                *)

\* CommandSet.name
name == IF Name = << >> THEN Name ELSE Base(osArgs0)

\* actions without its sort.Strings call.
actionsUnsorted(order) == order

\* CommandSet.actions
actions(order) == SortStrings(order)

\* partialMatch with the arguments of strings.HasPrefix exchanged.
partialMatchSwapped(prefix, order) ==
  SortStrings(SelectSeq(order, LAMBDA n : HasPrefix(prefix, n)))

\* CommandSet.partialMatch
partialMatch(prefix, order) ==
  SortStrings(SelectSeq(order, LAMBDA n : HasPrefix(n, prefix)))

\* CommandSet.unknownCommand
unknownCommand(n, order) ==
  LET possibles == partialMatch(n, order)
  IN  << Line("unknown command", n, "") >>
      \o IF Len(possibles) > 0
         THEN << Line("blank", << >>, ""), Line("did you mean", << >>, "") >>
              \o [i \in 1..Len(possibles) |-> Line("suggestion", possibles[i], "")]
         ELSE << >>

-----------------------------------------------------------------------------
(* The usage renderer. *)

\* shouldQuoteValue: the flag's Value points to a string.
shouldQuoteValue(f) == f.type = "string"

\* formatFlag with two dashes before every name, whatever its length.
formatFlagDoubleDash(f) ==
  << "-", "-" >> \o f.Name \o << "=" >>
  \o IF shouldQuoteValue(f) THEN Quote(f.DefValue) ELSE f.DefValue

\* formatFlag
formatFlag(f) ==
  LET leading == IF Len(f.Name) > 1 THEN << "-", "-" >> ELSE << "-" >>
  IN  leading \o f.Name \o << "=" >>
      \o IF shouldQuoteValue(f) THEN Quote(f.DefValue) ELSE f.DefValue

\* FlagSet.VisitAll: the flags in lexicographical order of their names.
VisitAll(flags) ==
  LET sorted == SortStrings(CHOOSE s \in RangeOrders({ f.Name : f \in flags }) : TRUE)
  IN  [i \in 1..Len(sorted) |-> CHOOSE f \in flags : f.Name = sorted[i]]

\* columnize
columnize(flags) ==
  LET fs        == VisitAll(flags)
      rows      == [i \in 1..Len(fs) |-> << formatFlag(fs[i]), fs[i].Usage >>]
      flagWidth == maxLen([i \in 1..Len(rows) |-> rows[i][1]])
  IN  [i \in 1..Len(rows) |-> Line("flag", PadRight(rows[i][1], flagWidth), rows[i][2])]

\* CommandSet.printUsageCmd
printUsageCmd(c) ==
  << Line("usage", name, Command(c).Usage), Line("blank", << >>, ""),
     Line("Arguments:", << >>, "") >>
  \o columnize(cmdFlags[c])
  \o IF Command(c).Synopsis # ""
     THEN << Line("blank", << >>, ""), Line("synopsis", << >>, Command(c).Synopsis) >>
     ELSE << >>

\* The listing PrintUsage prints when its argument is no registered name.
Listing(order) ==
  LET names     == actions(order)
      nameWidth == maxLen(names)
  IN  << Line("usage", name, "<command> [arguments]"), Line("blank", << >>, "") >>
      \o IF Len(names) > 0
         THEN << Line("Available commands:", << >>, "") >>
              \o [i \in 1..Len(names) |->
                    Line("command", PadRight(names[i], nameWidth),
                         Command(cmds[names[i]]).Short)]
              \o << Line("blank", << >>, ""), Line("hint", name, "") >>
         ELSE << >>
      \o << Line("blank", << >>, "") >>

\* CommandSet.PrintUsage
PrintUsage(n, order) ==
  IF n \in DOMAIN cmds THEN printUsageCmd(cmds[n]) ELSE Listing(order)

\* FlagSet.usage: what the Usage callback of c's flag set writes when the
\* flag package calls it.
Usage(c, order) ==
  IF flagsUsage[c].kind = "default" THEN PrintUsage(flagsUsage[c].name, order)
  ELSE IF flagsUsage[c].kind = "custom" THEN << Line("custom usage", << >>, c) >>
  ELSE << Line("flag.defaultUsage", << >>, c) >>

-----------------------------------------------------------------------------
(* Construction and registration. *)

\* No method of Command that defines a flag has been called.
NoOption ==
  [m |-> "none", cmd |-> "nil", name |-> << >>, depth |-> 0, pc |-> "idle",
   ret |-> "none"]

\* NewCommandSet, and a process that has created its commands, with their
\* flags, and has called nothing else yet.
Init ==
  /\ cmds = << >>
  /\ cmdFlags = [c \in Commands |-> Command(c).Flags]
  /\ opt = NoOption
  /\ Name \in { << >>, << "x" >> }
  /\ osArgs0 \in { << "/", "b", "/", "a" >>, << "a" >> }
  /\ flagsUsage = [c \in Commands |-> NoUsage]
  /\ nRegs = 0
  /\ op = Call("NewCommandSet", << >>, << >>, "nil")
  /\ out = << >>
  /\ ret = << >>
  /\ status = "running"
  /\ exitCode = -1
  /\ calls = << >>
  /\ result = "none"

\* The program is still setting the registry up: nothing has read it yet.
\* The calls that read the registry leave cmds, Name and every Flags.Usage
\* as they are, so a behaviour is followed up to its first such call.
Registering ==
  /\ status = "running"
  /\ op.f \in { "NewCommandSet", "SetFlagsUsage", "Register" }

\* The embedding program sets cmd.Flags.Usage itself before it registers cmd.
SetFlagsUsage(c) ==
  /\ Registering
  /\ flagsUsage[c] = NoUsage
  /\ flagsUsage' = [flagsUsage EXCEPT ![c] = CustomUsage]
  /\ op' = Call("SetFlagsUsage", << >>, << >>, c)
  /\ out' = << >>
  /\ ret' = << >>
  /\ UNCHANGED << cmds, Name, osArgs0, cmdFlags, opt, nRegs, status, exitCode,
                  calls, result >>

\* The assignment of Register skipped for a name that is already in the map.
StoreIfAbsent(n, c) ==
  IF n \in DOMAIN cmds THEN cmds
  ELSE [k \in (DOMAIN cmds) \cup { n } |-> IF k = n THEN c ELSE cmds[k]]

\* cs.cmds[name] = cmd: the map after the assignment.
Store(n, c) ==
  [k \in (DOMAIN cmds) \cup { n } |-> IF k = n THEN c ELSE cmds[k]]

\* CommandSet.Register; c = "nil" is the nil *Command.
Register(n, c) ==
  /\ Registering
  /\ nRegs < MaxRegs
  /\ nRegs' = nRegs + 1
  /\ op' = Call("Register", n, << >>, c)
  /\ ret' = << >>
  /\ IF c = "nil"
     THEN /\ status' = "panicked"
          /\ exitCode' = 2
          /\ out' = << Line("panic", << >>, "cli: nil command registered") >>
          /\ UNCHANGED << cmds, flagsUsage >>
     ELSE /\ out' = IF n \in DOMAIN cmds
                    THEN << Line("warning", n, "already exits") >>
                    ELSE << >>
          /\ flagsUsage' = IF flagsUsage[c] = NoUsage
                           THEN [flagsUsage EXCEPT ![c] = DefaultUsage(n)]
                           ELSE flagsUsage
          /\ cmds' = Store(n, c)
          /\ UNCHANGED << status, exitCode >>
  /\ UNCHANGED << Name, osArgs0, cmdFlags, opt, calls, result >>

-----------------------------------------------------------------------------
(* Calls that read the registry. *)

Actions ==
  /\ Registering
  /\ \E order \in RangeOrders(DOMAIN cmds) : ret' = actions(order)
  /\ op' = Call("actions", << >>, << >>, "nil")
  /\ out' = << >>
  /\ UNCHANGED << cmds, Name, osArgs0, flagsUsage, cmdFlags, opt, nRegs, status,
                  exitCode, calls, result >>

PartialMatch(prefix) ==
  /\ Registering
  /\ \E order \in RangeOrders(DOMAIN cmds) : ret' = partialMatch(prefix, order)
  /\ op' = Call("partialMatch", prefix, << >>, "nil")
  /\ out' = << >>
  /\ UNCHANGED << cmds, Name, osArgs0, flagsUsage, cmdFlags, opt, nRegs, status,
                  exitCode, calls, result >>

CallPrintUsage(n) ==
  /\ Registering
  /\ \E order \in RangeOrders(DOMAIN cmds) : out' = PrintUsage(n, order)
  /\ op' = Call("PrintUsage", n, << >>, "nil")
  /\ ret' = << >>
  /\ UNCHANGED << cmds, Name, osArgs0, flagsUsage, cmdFlags, opt, nRegs, status,
                  exitCode, calls, result >>

-----------------------------------------------------------------------------
(* The dispatcher. *)

\* The switch of Run with "help" tested only for an empty name, so that an
\* unknown name falls through to the listing.
NotFoundListing(n, args, order) ==
  IF n = help /\ Len(args) = 1 THEN PrintUsage(args[1], order)
  ELSE PrintUsage(<< >>, order)

\* The switch of Run for a name that is not in cmds.
NotFound(n, args, order) ==
  IF n # help THEN unknownCommand(n, order)
  ELSE IF Len(args) = 1 THEN PrintUsage(args[1], order)
  ELSE PrintUsage(<< >>, order)

\* Run printing every error of Parse, flag.ErrHelp included.
PrintsErrorAlways(err) == TRUE

\* Run prints the error of Parse unless it is flag.ErrHelp.
PrintsError(err) == err # "ErrHelp"

\* The call cmd.Run(args): the flags are not taken off the arguments.
InvokeAllArgs(c, args, p, r) == [cmd |-> c, args |-> args, result |-> r]

\* The call cmd.Run(cmd.Flags.Args()) with the result r of the function.
Invoke(c, args, p, r) == [cmd |-> c, args |-> p.args, result |-> r]

\* CommandSet.Run.  r is the error the command's function returns when it
\* is called.
Run(n, args) ==
  /\ Registering
  /\ op' = Call("Run", n, args, IF n \in DOMAIN cmds THEN cmds[n] ELSE "nil")
  /\ ret' = << >>
  /\ IF n \notin DOMAIN cmds
     THEN /\ \E order \in RangeOrders(DOMAIN cmds) : out' = NotFound(n, args, order)
          /\ status' = "exited"
          /\ exitCode' = 2
          /\ UNCHANGED << calls, result >>
     ELSE LET c == cmds[n]
              p == Parse(cmdFlags[c], args, << >>)
          IN  IF p.err # "nil"
              THEN /\ \E order \in RangeOrders(DOMAIN cmds) :
                        out' = Parse(cmdFlags[c], args, Usage(c, order)).out
                               \o IF PrintsError(p.err)
                                  THEN << Line("error", << >>, p.err) >>
                                  ELSE << >>
                   /\ status' = "exited"
                   /\ exitCode' = 2
                   /\ UNCHANGED << calls, result >>
              ELSE IF ~Command(c).Run
              THEN \* the call of a nil func value: a run-time panic
                   /\ out' = << Line("panic", << >>, "nil pointer dereference") >>
                   /\ status' = "panicked"
                   /\ exitCode' = 2
                   /\ UNCHANGED << calls, result >>
              ELSE /\ out' = << >>
                   /\ \E r \in { "nil", "error" } :
                        /\ calls' = Append(calls, Invoke(c, args, p, r))
                        /\ result' = r
                   /\ status' = "returned"
                   /\ UNCHANGED exitCode
  /\ UNCHANGED << cmds, Name, osArgs0, flagsUsage, cmdFlags, opt, nRegs >>

Next ==
  \/ \E c \in Commands : SetFlagsUsage(c)
  \/ \E n \in Names, c \in Commands \cup { "nil" } : Register(n, c)
  \/ Actions
  \/ \E prefix \in Names \cup { << "h" >> } : PartialMatch(prefix)
  \/ \E n \in Names : CallPrintUsage(n)
  \/ \E n \in Names, args \in ArgLists : Run(n, args)

Spec == Init /\ [][Next]_vars

-----------------------------------------------------------------------------
(* The methods of Command that define a flag on its flag set.  A call is  *)
(* followed step by step: opt.pc is "called" while the method's body has   *)
(* yet to run, opt.depth the number of its activations on the stack.       *)

Methods ==
  { "Bool", "BoolVar", "Duration", "DurationVar", "Float64", "Float64Var",
    "Int", "IntVar", "Int64", "Int64Var", "String", "StringVar",
    "Uint", "UintVar", "Uint64", "Uint64Var", "Var" }

\* The methods that return the address of a new variable; the others store
\* into the variable, or the flag.Value, of the caller.
ReturnsPointer(m) ==
  m \in { "Bool", "Duration", "Float64", "Int", "Int64", "String", "Uint", "Uint64" }

\* The kind of flag.Value the method defines.
KindOf(m) ==
  CASE m \in { "Bool", "BoolVar" }         -> "bool"
    [] m \in { "Duration", "DurationVar" } -> "duration"
    [] m \in { "Float64", "Float64Var" }   -> "float64"
    [] m \in { "Int", "IntVar" }           -> "int"
    [] m \in { "Int64", "Int64Var" }       -> "int64"
    [] m \in { "String", "StringVar" }     -> "string"
    [] m \in { "Uint", "UintVar" }         -> "uint"
    [] m \in { "Uint64", "Uint64Var" }     -> "uint64"
    [] OTHER                               -> "value"

\* The default value the caller passes, as the flag set prints it.
DefValueOf(kind) ==
  CASE kind = "bool"   -> << "f", "a", "l", "s", "e" >>
    [] kind = "string" -> << >>
    [] kind = "value"  -> << "x" >>
    [] OTHER           -> << "0" >>

\* The body of the method is a call of the same method of the flag set, all
\* but the two that call themselves.
Delegates(m) == m \notin { "Float64", "Float64Var" }

\* The names the flags are defined under.
OptionNames == { << "v" >>, << "o" >> }

\* A program that has created its commands, without flags, and a command set.
InitOptions ==
  /\ cmds = << >>
  /\ Name = << >>
  /\ osArgs0 = << "/", "b", "/", "a" >>
  /\ flagsUsage = [c \in Commands |-> NoUsage]
  /\ cmdFlags = [c \in Commands |-> { }]
  /\ opt = NoOption
  /\ nRegs = 0
  /\ op = Call("NewCommandSet", << >>, << >>, "nil")
  /\ out = << >>
  /\ ret = << >>
  /\ status = "running"
  /\ exitCode = -1
  /\ calls = << >>
  /\ result = "none"

\* The program calls cmd.m(n, value, usage), or cmd.m(p, n, value, usage).
OptionCall(c, m, n) ==
  /\ status = "running"
  /\ opt.pc # "called"
  /\ Cardinality(UNION { cmdFlags[k] : k \in Commands }) < MaxOpts
  /\ opt' = [m |-> m, cmd |-> c, name |-> n, depth |-> 1, pc |-> "called",
             ret |-> "none"]
  /\ op' = Call(m, n, << >>, c)
  /\ out' = << >>
  /\ ret' = << >>
  /\ UNCHANGED << cmds, Name, osArgs0, flagsUsage, cmdFlags, nRegs, status,
                  exitCode, calls, result >>

\* The body of the method called runs: it hands the call to the flag set,
\* which defines the flag or panics when the name is taken, or it calls the
\* method again, until the stack is full.
OptionBody ==
  /\ status = "running"
  /\ opt.pc = "called"
  /\ IF Delegates(opt.m)
     THEN IF \E f \in cmdFlags[opt.cmd] : f.Name = opt.name
          THEN /\ opt' = [opt EXCEPT !.pc = "panicked"]
               /\ status' = "panicked"
               /\ exitCode' = 2
               /\ out' = << Line("panic", opt.name, "flag redefined") >>
               /\ UNCHANGED cmdFlags
          ELSE /\ cmdFlags' =
                    [cmdFlags EXCEPT ![opt.cmd] =
                       @ \cup { Flag(opt.name, KindOf(opt.m),
                                     DefValueOf(KindOf(opt.m)), "usage") }]
               /\ opt' = [opt EXCEPT !.pc = "returned",
                                     !.ret = IF ReturnsPointer(opt.m)
                                             THEN "pointer" ELSE "none"]
               /\ UNCHANGED << status, exitCode, out >>
     ELSE IF opt.depth < MaxStack
          THEN /\ opt' = [opt EXCEPT !.depth = @ + 1]
               /\ UNCHANGED << cmdFlags, status, exitCode, out >>
          ELSE /\ opt' = [opt EXCEPT !.pc = "overflow"]
               /\ status' = "fatal"
               /\ exitCode' = 2
               /\ out' = << Line("fatal error", << >>, "stack overflow") >>
               /\ UNCHANGED cmdFlags
  /\ UNCHANGED << cmds, Name, osArgs0, flagsUsage, nRegs, op, ret, calls, result >>

NextOptions ==
  \/ \E c \in Commands, m \in Methods, n \in OptionNames : OptionCall(c, m, n)
  \/ OptionBody

SpecOptions == InitOptions /\ [][NextOptions]_vars

-----------------------------------------------------------------------------
(* Properties. *)

\* Run was called with a name that is in cmds.
RanRegistered == op.f = "Run" /\ op.name \in DOMAIN cmds

\* What parsing the arguments of that call against the command's flags gives.
Parsed == Parse(cmdFlags[cmds[op.name]], op.args, << >>)

\* p is a byte-wise prefix of s.
IsPrefix(p, s) == Len(p) <= Len(s) /\ \A i \in 1..Len(p) : s[i] = p[i]

\* s is in strictly ascending byte-wise order.
Ascending(s) == \A i, j \in 1..Len(s) : i < j => Less(s[i], s[j])

Range(s) == { s[i] : i \in 1..Len(s) }

\* t is what is left of s after some of its first elements are taken away.
IsSuffix(t, s) == Len(t) <= Len(s) /\ t = SubSeq(s, Len(s) - Len(t) + 1, Len(s))

\* C1: Run with a name that is neither registered nor "help" writes
\* "unknown command: <name>" to standard error, exits with status 2 and calls
\* no command's function.
C1_UnknownCommandExits ==
  (op.f = "Run" /\ op.name \notin DOMAIN cmds /\ op.name # help) =>
     /\ status = "exited"
     /\ exitCode = 2
     /\ Len(out) >= 1
     /\ out[1] = Line("unknown command", op.name, "")
     /\ calls = << >>
     /\ result = "none"

C1_Witness ==
  /\ op.f = "Run"
  /\ op.name = << "a" >>
  /\ DOMAIN cmds = { << "a", "b" >>, help }
  /\ status = "exited"
  /\ out[1].k = "unknown command"

\* C2: when Run resolves the name to a command with a function and the
\* arguments parse, the function is called exactly once, with exactly the
\* arguments left after the flags, and Run returns its result: nothing is
\* written and the process does not exit.
C2_ActionGetsPositionalArgs ==
  (RanRegistered /\ Command(cmds[op.name]).Run /\ Parsed.err = "nil") =>
     /\ status = "returned"
     /\ exitCode = -1
     /\ out = << >>
     /\ Len(calls) = 1
     /\ calls[1].cmd = cmds[op.name]
     /\ calls[1].args = Parsed.args
     /\ IsSuffix(calls[1].args, op.args)
     /\ result = calls[1].result
     /\ op.args = << << "-", "v" >>, << "a" >> >> => calls[1].args = << << "a" >> >>
     /\ op.args = << << "-", "o" >>, << "a" >> >> => calls[1].args = << >>
     /\ op.args = << << "a" >>, << "-", "v" >> >> => calls[1].args = op.args
     /\ op.args = << << "-", "-" >>, << "-", "v" >> >> => calls[1].args = << << "-", "v" >> >>

C2_Witness ==
  /\ RanRegistered
  /\ op.args = << << "-", "-", "o", "=", "a" >>, << "-", "v" >>, << "a" >> >>
  /\ status = "returned"
  /\ calls = << [cmd |-> "export", args |-> << << "a" >> >>, result |-> "error"] >>
  /\ result = "error"

\* C3: when Run resolves the name but the arguments do not parse, the process
\* exits with status 2 and the command's function is not called; Run itself
\* prints the error, as its last line, if and only if the error is not
\* flag.ErrHelp.
C3_ParseFailureExits ==
  (RanRegistered /\ Parsed.err # "nil") =>
     /\ status = "exited"
     /\ exitCode = 2
     /\ calls = << >>
     /\ result = "none"
     /\ { i \in 1..Len(out) : out[i].k = "error" }
          = IF Parsed.err = "ErrHelp" THEN { } ELSE { Len(out) }
     /\ Parsed.err # "ErrHelp" => out[Len(out)] = Line("error", << >>, Parsed.err)

C3_Witness ==
  /\ RanRegistered
  /\ op.cmd = "export"
  /\ op.args = << << "-", "h" >> >>
  /\ status = "exited"
  /\ exitCode = 2
  /\ \A i \in 1..Len(out) : out[i].k # "error"

\* C4: Run of a registered command without a function (a help topic) whose
\* arguments parse takes the path of an unknown command and exits with status
\* 2; it neither does nothing nor calls the absent function.  (Stated for
\* the topics registered under a name that is not empty.)
C4_TopicIsUsageError ==
  (RanRegistered /\ op.name # << >> /\ ~Command(cmds[op.name]).Run
     /\ Parsed.err = "nil") =>
     /\ status = "exited"
     /\ exitCode = 2
     /\ Len(out) >= 1
     /\ out[1] = Line("unknown command", op.name, "")

\* C5: the program name in the usage text is CommandSet.Name when that is not
\* empty, and the base name of os.Args[0] only when it is empty.
C5_DisplayName ==
  \A i \in 1..Len(out) :
     out[i].k \in { "usage", "hint" } =>
        out[i].s = IF Name # << >> THEN Name ELSE Base(osArgs0)

\* C6: Run with the empty name prints the listing of the commands and exits
\* with status 2; it neither prints "unknown command" nor runs a command
\* registered under the empty name.
C6_EmptyNameIsListing ==
  (op.f = "Run" /\ op.name = << >>) =>
     /\ status = "exited"
     /\ exitCode = 2
     /\ calls = << >>
     /\ \E order \in RangeOrders(DOMAIN cmds) : out = Listing(order)
     /\ \A i \in 1..Len(out) : out[i].k # "unknown command"

\* C7: Run with the name "help" and no or at least two arguments prints the
\* listing of the commands, and with one argument that is registered prints
\* the usage of that command; in each case the process exits with status 2
\* and no command's function is called.  (Stated for the registries that
\* hold no command under the empty name.)
C7_HelpIsIntercepted ==
  (op.f = "Run" /\ op.name = help /\ << >> \notin DOMAIN cmds) =>
     /\ status = "exited"
     /\ exitCode = 2
     /\ calls = << >>
     /\ Len(op.args) # 1 => \E order \in RangeOrders(DOMAIN cmds) : out = Listing(order)
     /\ (Len(op.args) = 1 /\ op.args[1] \in DOMAIN cmds) =>
           out = printUsageCmd(cmds[op.args[1]])

\* C8: Run with the name "help" and exactly one argument that is not
\* registered prints "unknown command: <argument>" with the suggestions for
\* it, not the listing, and exits with status 2.
C8_HelpUnknownTopic ==
  (op.f = "Run" /\ op.name = help /\ Len(op.args) = 1 /\ op.args[1] \notin DOMAIN cmds) =>
     /\ status = "exited"
     /\ exitCode = 2
     /\ \E order \in RangeOrders(DOMAIN cmds) : out = unknownCommand(op.args[1], order)

C10_PartialMatchExact ==
  LET matches == { n \in DOMAIN cmds : IsPrefix(op.name, n) }
  IN
  /\ op.f = "partialMatch" =>
        /\ Range(ret) = matches
        /\ Len(ret) = Cardinality(matches)
        /\ Ascending(ret)
  /\ (op.f = "Run" /\ op.name \notin DOMAIN cmds /\ op.name # help) =>
        /\ matches = { } => out = << Line("unknown command", op.name, "") >>
        /\ matches # { } =>
              /\ Len(out) = 3 + Cardinality(matches)
              /\ out[3].k = "did you mean"
              /\ { out[i].s : i \in 4..Len(out) } = matches
              /\ Ascending([i \in 1..(Len(out) - 3) |-> out[i + 3].s])

C10_Witness ==
  /\ op.f = "partialMatch"
  /\ op.name = << "a" >>
  /\ DOMAIN cmds = { << "a" >>, << "a", "b" >>, help }
  /\ ret = << << "a" >>, << "a", "b" >> >>

\* C11: a Register call with a name that is already registered does not end
\* the process and replaces the entry: the set of names stays the same (no
\* Register call takes a name away), every other name keeps its command, the
\* name now maps to the command just registered, and a Run of that name right
\* after resolves to that command.
C11_RegisterReplaces ==
  [][ /\ (op'.f = "Register" /\ op'.cmd # "nil") =>
            /\ status' = "running"
            /\ DOMAIN cmds' = (DOMAIN cmds) \cup { op'.name }
            /\ cmds'[op'.name] = op'.cmd
            /\ \A k \in (DOMAIN cmds) \ { op'.name } : cmds'[k] = cmds[k]
      /\ (op.f = "Register" /\ op.cmd # "nil" /\ op'.f = "Run" /\ op'.name = op.name) =>
            /\ op'.cmd = op.cmd
            /\ status' = "returned" => calls'[1].cmd = op.cmd
    ]_vars

C11_Witness ==
  /\ op.f = "Register"
  /\ out = << Line("warning", op.name, "already exits") >>
  /\ flagsUsage["topic"] = DefaultUsage(op.name)
  /\ cmds[op.name] = "export"
  /\ Cardinality(DOMAIN cmds) = 2
  /\ status = "running"

\* The last call printed the usage of export: PrintUsage with a name
\* registered for it, or Run of the unregistered "help" with such a name.
PrintedExportUsage ==
  \/ op.f = "PrintUsage" /\ op.name \in DOMAIN cmds /\ cmds[op.name] = "export"
  \/ /\ op.f = "Run" /\ op.name = help /\ help \notin DOMAIN cmds
     /\ Len(op.args) = 1 /\ op.args[1] \in DOMAIN cmds
     /\ cmds[op.args[1]] = "export"

\* The flag column of the rows of the options in the last output.
FlagColumn == SelectSeq(out, LAMBDA l : l.k = "flag")

\* C12, as claimed: the usage of export, with its bool option v (default
\* false) and its string option o (default ""), has a row whose flag column
\* is -v=false and a row whose flag column is --o="", each padded to the
\* width of the wider of the two.
C12_RowsAsClaimed ==
  PrintedExportUsage =>
     LET v == << "-", "v", "=", "f", "a", "l", "s", "e" >>
         o == << "-", "-", "o", "=", "\"", "\"" >>
         w == IF Len(v) > Len(o) THEN Len(v) ELSE Len(o)
     IN  /\ \E i \in 1..Len(FlagColumn) : FlagColumn[i].s = PadRight(v, w)
         /\ \E i \in 1..Len(FlagColumn) : FlagColumn[i].s = PadRight(o, w)

\* C12, amended: the row of o has the flag column -o="" (one dash, as the
\* name has one character; the default quoted) and the row of v has
\* -v=false; the rows come in the order of the names and both columns are as
\* wide as -v=false, the wider of the two.
C12_ExportRows ==
  PrintedExportUsage =>
     FlagColumn =
       << Line("flag", << "-", "o", "=", "\"", "\"", " ", " ", " " >>, "output to a file"),
          Line("flag", << "-", "v", "=", "f", "a", "l", "s", "e" >>,
               "cause export to be verbose") >>

C12_Witness ==
  /\ op.f = "PrintUsage"
  /\ op.name = << "a" >>
  /\ << "a" >> \in DOMAIN cmds
  /\ cmds[<< "a" >>] = "export"
  /\ Len(FlagColumn) = 2
  /\ out[1].k = "usage"
  /\ out[1].t = "export [-v] [-o <outfile>]"

\* C13: every call of a method of Command that defines a flag ends by
\* returning, with the flag defined on the command's flag set under the name
\* given and with the address of the new variable returned by the methods
\* that return one; no such method calls itself.  (A name that is already
\* defined makes the flag set panic.)
C13_OptionMethodsReturn ==
  opt.pc # "idle" =>
     /\ opt.depth = 1
     /\ opt.pc \in { "called", "returned", "panicked" }
     /\ opt.pc = "returned" =>
           /\ \E f \in cmdFlags[opt.cmd] :
                 f.Name = opt.name /\ f.type = KindOf(opt.m)
           /\ opt.ret = "pointer" <=> ReturnsPointer(opt.m)
     /\ opt.pc = "panicked" => \E f \in cmdFlags[opt.cmd] : f.Name = opt.name

\* What the Usage callback of the command's flag set wrote during a Run whose
\* arguments did not parse: the output without the error the flag package
\* prints before it and the error Run prints after it.
UsageWritten ==
  IF Parsed.err = "ErrHelp" THEN out ELSE SubSeq(out, 2, Len(out) - 1)

\* C14: the callback Register installs on the flag set of a command that has
\* none prints, whenever it is called and whatever was registered since, the
\* usage of that command; a callback the caller installed is the one called.
\* (Stated for the registries that hold no command under the empty name.)
C14_UsageOfOwnCommand ==
  (RanRegistered /\ << >> \notin DOMAIN cmds /\ Parsed.err # "nil") =>
     /\ flagsUsage[op.cmd].kind = "default" => UsageWritten = printUsageCmd(op.cmd)
     /\ flagsUsage[op.cmd].kind = "custom" =>
           UsageWritten = << Line("custom usage", << >>, op.cmd) >>

====
